---- MODULE Spec2Model ----
(***************************************************************************)
(* A model of the columnar stores of src/src/lib.rs: the Columnar trait    *)
(* and its implementations for Vec<T> (flat), usize (unit), ColumnString   *)
(* (text), ColumnVec (list), tuples of arity 2 and 3, ColumnOption and     *)
(* ColumnResult.  A store is a record whose field k names its variant; the *)
(* operations are recursive operators over that record, as the trait       *)
(* methods recurse over the nested stores.                                 *)
(***************************************************************************)
EXTENDS Integers, Sequences, FiniteSets, TLC

VARIABLES shape, build, store, log, lastOp, hist, ret, panicked

vars == <<shape, build, store, log, lastOp, hist, ret, panicked>>

(***************************************************************************)
(* Bounds of the exploration.                                              *)
(***************************************************************************)
\* usize is modelled as an unsigned word of WordBits bits
WordBits == 8
\* the most entries a store is given
MaxLen == 2
\* the longest slice handed to copy_slice
MaxSlice == 2
\* the longest text value, in characters
MaxStrLen == 1
\* the longest list value
MaxListLen == 2

Modulus == 2 ^ WordBits
UsizeMax == Modulus - 1

Max(a, b) == IF a >= b THEN a ELSE b

(***************************************************************************)
(* usize arithmetic.  Overflow is a panic in a build with overflow checks  *)
(* (the debug profile) and wraps modulo 2^w otherwise (the release         *)
(* profile); build names the profile.                                      *)
(***************************************************************************)
WSub(a, b) == [panic |-> build = "debug" /\ a < b, val |-> (a - b) % Modulus]
WAdd(a, b) == [panic |-> build = "debug" /\ a + b > UsizeMax, val |-> (a + b) % Modulus]

(***************************************************************************)
(* std::vec::Vec: the items, the capacity and the element size in bytes.   *)
(***************************************************************************)
NewVec(esz) == [items |-> <<>>, cap |-> 0, esz |-> esz]
VecLen(v) == Len(v.items)
VecLast(v) == v.items[Len(v.items)]
MinNonZeroCap(esz) == IF esz = 1 THEN 8 ELSE 4
VecReserve(v, additional) ==
    IF v.cap - VecLen(v) >= additional
    THEN v
    ELSE [v EXCEPT !.cap = Max(Max(2 * v.cap, VecLen(v) + additional), MinNonZeroCap(v.esz))]
VecPush(v, x) == [VecReserve(v, 1) EXCEPT !.items = Append(@, x)]
VecExtend(v, xs) == [VecReserve(v, Len(xs)) EXCEPT !.items = @ \o xs]
VecPop(v) ==
    IF VecLen(v) = 0
    THEN [v |-> v, out |-> <<>>]
    ELSE [v |-> [v EXCEPT !.items = SubSeq(@, 1, Len(@) - 1)], out |-> <<VecLast(v)>>]
VecClear(v) == [v EXCEPT !.items = <<>>]
VecSplitOff(v, at) ==
    [panic |-> at > VecLen(v),
     v |-> [v EXCEPT !.items = SubSeq(@, 1, at)],
     tail |-> SubSeq(v.items, at + 1, VecLen(v))]

(***************************************************************************)
(* Text values are sequences of characters (code points); as_bytes is      *)
(* their UTF-8 encoding and String::from_utf8 validates and decodes.       *)
(***************************************************************************)
Chars == {65, 233}
EncodeChar(c) == IF c < 128 THEN <<c>> ELSE <<192 + (c \div 64), 128 + (c % 64)>>
RECURSIVE AsBytes(_)
AsBytes(str) == IF str = <<>> THEN <<>> ELSE EncodeChar(Head(str)) \o AsBytes(Tail(str))
RECURSIVE FromUtf8(_)
FromUtf8(bytes) ==
    IF bytes = <<>> THEN [ok |-> TRUE, str |-> <<>>]
    ELSE IF bytes[1] < 128
    THEN LET r == FromUtf8(Tail(bytes))
         IN  [ok |-> r.ok, str |-> <<bytes[1]>> \o r.str]
    ELSE IF /\ bytes[1] >= 194 /\ bytes[1] < 224 /\ Len(bytes) >= 2
            /\ bytes[2] >= 128 /\ bytes[2] < 192
    THEN LET r == FromUtf8(Tail(Tail(bytes)))
         IN  [ok |-> r.ok, str |-> <<(bytes[1] - 192) * 64 + (bytes[2] - 128)>> \o r.str]
    ELSE [ok |-> FALSE, str |-> <<>>]

(***************************************************************************)
(* Shapes (the Columnable types) and their values.                         *)
(***************************************************************************)
Flat == [k |-> "flat"]
Unit == [k |-> "unit"]
Text == [k |-> "text"]
ListOf(e) == [k |-> "list", e |-> e]
Tup2(a, b) == [k |-> "tup2", a |-> a, b |-> b]
Tup3(a, b, c) == [k |-> "tup3", a |-> a, b |-> b, c |-> c]
OptOf(e) == [k |-> "opt", e |-> e]
ResOf(a, b) == [k |-> "res", a |-> a, b |-> b]

FlatVals == {1, 2}
UnitVal == "()"
SeqsUpTo(S, n) == UNION {[1..m -> S] : m \in 0..n}

RECURSIVE Values(_)
Values(sh) ==
    CASE sh.k = "flat" -> FlatVals
      [] sh.k = "unit" -> {UnitVal}
      [] sh.k = "text" -> SeqsUpTo(Chars, MaxStrLen)
      [] sh.k = "list" -> SeqsUpTo(Values(sh.e), MaxListLen)
      [] sh.k = "tup2" -> {<<x, y>> : x \in Values(sh.a), y \in Values(sh.b)}
      [] sh.k = "tup3" -> {<<x, y, z>> : x \in Values(sh.a), y \in Values(sh.b), z \in Values(sh.c)}
      [] sh.k = "opt"  -> {<<>>} \cup {<<x>> : x \in Values(sh.e)}
      [] sh.k = "res"  -> {<<"Ok", x>> : x \in Values(sh.a)} \cup {<<"Err", y>> : y \in Values(sh.b)}

(***************************************************************************)
(* Columnable::Columns and Default: the store a shape is given, empty.     *)
(***************************************************************************)
RECURSIVE DefaultStore(_)
DefaultStore(sh) ==
    CASE sh.k = "flat" -> [k |-> "flat", vec |-> NewVec(8)]
      [] sh.k = "unit" -> [k |-> "unit", n |-> 0]
      [] sh.k = "text" -> [k |-> "text", bounds |-> NewVec(8), values |-> NewVec(1)]
      [] sh.k = "list" -> [k |-> "list", bounds |-> [items |-> <<0>>, cap |-> 1, esz |-> 8],
                           values |-> DefaultStore(sh.e)]
      [] sh.k = "tup2" -> [k |-> "tup2", f0 |-> DefaultStore(sh.a), f1 |-> DefaultStore(sh.b)]
      [] sh.k = "tup3" -> [k |-> "tup3", f0 |-> DefaultStore(sh.a), f1 |-> DefaultStore(sh.b),
                           f2 |-> DefaultStore(sh.c)]
      [] sh.k = "opt"  -> [k |-> "opt", indexes |-> NewVec(16), t_store |-> DefaultStore(sh.e)]
      [] sh.k = "res"  -> [k |-> "res", indexes |-> NewVec(16), s_store |-> DefaultStore(sh.a),
                           t_store |-> DefaultStore(sh.b)]

(***************************************************************************)
(* Columnar::len.  LenPanics tells whether the subtraction in the text and *)
(* list stores' len overflows in a build that checks it; StoreLen is the   *)
(* value returned otherwise.                                               *)
(***************************************************************************)
RECURSIVE StoreLen(_)
StoreLen(s) ==
    CASE s.k = "flat" -> VecLen(s.vec)
      [] s.k = "unit" -> s.n
      [] s.k = "text" -> WSub(VecLen(s.bounds), 1).val
      [] s.k = "list" -> WSub(VecLen(s.bounds), 1).val
      [] s.k = "tup2" -> StoreLen(s.f0)
      [] s.k = "tup3" -> StoreLen(s.f0)
      [] s.k = "opt"  -> VecLen(s.indexes)
      [] s.k = "res"  -> VecLen(s.indexes)

RECURSIVE LenPanics(_)
LenPanics(s) ==
    CASE s.k = "text" -> WSub(VecLen(s.bounds), 1).panic
      [] s.k = "list" -> WSub(VecLen(s.bounds), 1).panic
      [] s.k = "tup2" -> LenPanics(s.f0)
      [] s.k = "tup3" -> LenPanics(s.f0)
      [] OTHER -> FALSE

IsEmpty(s) == StoreLen(s) = 0

(***************************************************************************)
(* Columnar::copy and Columnar::copy_slice.  The result is the store after *)
(* the call and whether the call panicked on the way (the store is then as *)
(* the panic left it).                                                     *)
(***************************************************************************)
RECURSIVE Copy(_, _)
RECURSIVE CopySlice(_, _)
RECURSIVE CopyEach(_, _)

\* the trait's default copy_slice: copy each element in order
CopyEach(s, items) ==
    IF items = <<>>
    THEN [s |-> s, panic |-> FALSE]
    ELSE LET r == Copy(s, Head(items))
         IN  IF r.panic THEN r ELSE CopyEach(r.s, Tail(items))

\* copy_slice with the unit store's override counting one item whatever the slice
CopySliceMiscount(s, items) ==
    CASE s.k = "flat" -> [s |-> [s EXCEPT !.vec = VecExtend(@, items)], panic |-> FALSE]
      [] s.k = "unit" -> LET a == WAdd(s.n, 1)
                         IN  [s |-> IF a.panic THEN s ELSE [s EXCEPT !.n = a.val], panic |-> a.panic]
      [] OTHER -> CopyEach(s, items)

CopySlice(s, items) ==
    CASE s.k = "flat" -> [s |-> [s EXCEPT !.vec = VecExtend(@, items)], panic |-> FALSE]
      [] s.k = "unit" -> LET a == WAdd(s.n, Len(items))
                         IN  [s |-> IF a.panic THEN s ELSE [s EXCEPT !.n = a.val], panic |-> a.panic]
      [] OTHER -> CopyEach(s, items)

CopyFlat(s, item) == [s |-> [s EXCEPT !.vec = VecPush(@, item)], panic |-> FALSE]

CopyUnit(s, item) ==
    LET a == WAdd(s.n, 1)
    IN  [s |-> IF a.panic THEN s ELSE [s EXCEPT !.n = a.val], panic |-> a.panic]

CopyString(s, item) ==
    LET values == VecExtend(s.values, AsBytes(item))
    IN  [s |-> [s EXCEPT !.values = values, !.bounds = VecPush(@, VecLen(values))],
         panic |-> FALSE]

CopyVec(s, item) ==
    LET r == CopySlice(s.values, item)
        s1 == [s EXCEPT !.values = r.s]
    IN  IF r.panic \/ LenPanics(r.s)
        THEN [s |-> s1, panic |-> TRUE]
        ELSE [s |-> [s1 EXCEPT !.bounds = VecPush(@, StoreLen(r.s))], panic |-> FALSE]

CopyTuple2(s, item) ==
    LET r0 == Copy(s.f0, item[1])
        s0 == [s EXCEPT !.f0 = r0.s]
    IN  IF r0.panic
        THEN [s |-> s0, panic |-> TRUE]
        ELSE LET r1 == Copy(s.f1, item[2])
             IN  [s |-> [s0 EXCEPT !.f1 = r1.s], panic |-> r1.panic]

CopyTuple3(s, item) ==
    LET r0 == Copy(s.f0, item[1])
        s0 == [s EXCEPT !.f0 = r0.s]
    IN  IF r0.panic
        THEN [s |-> s0, panic |-> TRUE]
        ELSE LET r1 == Copy(s.f1, item[2])
                 s1 == [s0 EXCEPT !.f1 = r1.s]
             IN  IF r1.panic
                 THEN [s |-> s1, panic |-> TRUE]
                 ELSE LET r2 == Copy(s.f2, item[3])
                      IN  [s |-> [s1 EXCEPT !.f2 = r2.s], panic |-> r2.panic]

\* a tag of the union store: Ok(offset) or Err(offset)
TagOk(i) == <<"Ok", i>>
TagErr(i) == <<"Err", i>>
\* the tag ColumnResult::copy records for an Err item
ErrItemTag(i) == TagOk(i)

CopyResult(s, item) ==
    IF item[1] = "Ok"
    THEN IF LenPanics(s.s_store)
         THEN [s |-> s, panic |-> TRUE]
         ELSE LET s1 == [s EXCEPT !.indexes = VecPush(@, TagOk(StoreLen(s.s_store)))]
                  r == Copy(s.s_store, item[2])
              IN  [s |-> [s1 EXCEPT !.s_store = r.s], panic |-> r.panic]
    ELSE IF LenPanics(s.t_store)
         THEN [s |-> s, panic |-> TRUE]
         ELSE LET s1 == [s EXCEPT !.indexes = VecPush(@, ErrItemTag(StoreLen(s.t_store)))]
                  r == Copy(s.t_store, item[2])
              IN  [s |-> [s1 EXCEPT !.t_store = r.s], panic |-> r.panic]

\* a tag of the optional store: None is <<>>, Some(offset) is <<offset>>
CopyOption(s, item) ==
    IF item # <<>>
    THEN IF LenPanics(s.t_store)
         THEN [s |-> s, panic |-> TRUE]
         ELSE LET s1 == [s EXCEPT !.indexes = VecPush(@, <<StoreLen(s.t_store)>>)]
                  r == Copy(s.t_store, item[1])
              IN  [s |-> [s1 EXCEPT !.t_store = r.s], panic |-> r.panic]
    ELSE [s |-> [s EXCEPT !.indexes = VecPush(@, <<>>)], panic |-> FALSE]

Copy(s, item) ==
    CASE s.k = "flat" -> CopyFlat(s, item)
      [] s.k = "unit" -> CopyUnit(s, item)
      [] s.k = "text" -> CopyString(s, item)
      [] s.k = "list" -> CopyVec(s, item)
      [] s.k = "tup2" -> CopyTuple2(s, item)
      [] s.k = "tup3" -> CopyTuple3(s, item)
      [] s.k = "opt"  -> CopyOption(s, item)
      [] s.k = "res"  -> CopyResult(s, item)

(***************************************************************************)
(* Columnar::pop.  out is <<>> for None and <<x>> for Some(x).             *)
(***************************************************************************)
RECURSIVE Pop(_)
RECURSIVE PopN(_, _, _)

Reverse(seq) == [i \in 1..Len(seq) |-> seq[Len(seq) + 1 - i]]

\* the loop of ColumnVec::pop: count times values.pop().unwrap(), pushed on acc
PopN(s, count, acc) ==
    IF count = 0
    THEN [s |-> s, out |-> acc, panic |-> FALSE]
    ELSE LET r == Pop(s)
         IN  IF r.panic \/ Len(r.out) = 0
             THEN [s |-> r.s, out |-> acc, panic |-> TRUE]
             ELSE PopN(r.s, count - 1, Append(acc, r.out[1]))

PopFlat(s) ==
    LET r == VecPop(s.vec)
    IN  [s |-> [s EXCEPT !.vec = r.v], out |-> r.out, panic |-> FALSE]

PopUnit(s) ==
    IF s.n > 0
    THEN [s |-> [s EXCEPT !.n = @ - 1], out |-> <<UnitVal>>, panic |-> FALSE]
    ELSE [s |-> s, out |-> <<>>, panic |-> FALSE]

PopString(s) ==
    IF VecLen(s.bounds) > 1
    THEN LET bounds == VecPop(s.bounds).v
             start == VecLast(bounds)
             split == VecSplitOff(s.values, start)
             dec == FromUtf8(split.tail)
         IN  IF split.panic
             THEN [s |-> [s EXCEPT !.bounds = bounds], out |-> <<>>, panic |-> TRUE]
             ELSE [s |-> [s EXCEPT !.bounds = bounds, !.values = split.v],
                   out |-> IF dec.ok THEN <<dec.str>> ELSE <<>>,
                   panic |-> ~dec.ok]
    ELSE [s |-> s, out |-> <<>>, panic |-> FALSE]

PopVec(s) ==
    IF VecLen(s.bounds) > 1
    THEN LET last == VecLast(s.bounds)
             bounds == VecPop(s.bounds).v
             count == WSub(last, VecLast(bounds))
             s1 == [s EXCEPT !.bounds = bounds]
         IN  IF count.panic
             THEN [s |-> s1, out |-> <<>>, panic |-> TRUE]
             ELSE LET r == PopN(s.values, count.val, <<>>)
                  IN  [s |-> [s1 EXCEPT !.values = r.s],
                       out |-> IF r.panic THEN <<>> ELSE <<Reverse(r.out)>>,
                       panic |-> r.panic]
    ELSE [s |-> s, out |-> <<>>, panic |-> FALSE]

PopTuple2(s) ==
    LET r0 == Pop(s.f0)
        s0 == [s EXCEPT !.f0 = r0.s]
    IN  IF r0.panic
        THEN [s |-> s0, out |-> <<>>, panic |-> TRUE]
        ELSE LET r1 == Pop(s.f1)
                 s1 == [s0 EXCEPT !.f1 = r1.s]
             IN  IF r1.panic
                 THEN [s |-> s1, out |-> <<>>, panic |-> TRUE]
                 ELSE IF Len(r0.out) = 1 /\ Len(r1.out) = 1
                 THEN [s |-> s1, out |-> <<(<<r0.out[1], r1.out[1]>>)>>, panic |-> FALSE]
                 ELSE IF Len(r0.out) = 0 /\ Len(r1.out) = 0
                 THEN [s |-> s1, out |-> <<>>, panic |-> FALSE]
                 ELSE [s |-> s1, out |-> <<>>, panic |-> TRUE]

PopTuple3(s) ==
    LET r0 == Pop(s.f0)
        s0 == [s EXCEPT !.f0 = r0.s]
    IN  IF r0.panic
        THEN [s |-> s0, out |-> <<>>, panic |-> TRUE]
        ELSE LET r1 == Pop(s.f1)
                 s1 == [s0 EXCEPT !.f1 = r1.s]
             IN  IF r1.panic
                 THEN [s |-> s1, out |-> <<>>, panic |-> TRUE]
                 ELSE LET r2 == Pop(s.f2)
                          s2 == [s1 EXCEPT !.f2 = r2.s]
                      IN  IF r2.panic
                          THEN [s |-> s2, out |-> <<>>, panic |-> TRUE]
                          ELSE IF Len(r0.out) = 1 /\ Len(r1.out) = 1 /\ Len(r2.out) = 1
                          THEN [s |-> s2, out |-> <<(<<r0.out[1], r1.out[1], r2.out[1]>>)>>,
                                panic |-> FALSE]
                          ELSE IF Len(r0.out) = 0 /\ Len(r1.out) = 0 /\ Len(r2.out) = 0
                          THEN [s |-> s2, out |-> <<>>, panic |-> FALSE]
                          ELSE [s |-> s2, out |-> <<>>, panic |-> TRUE]

PopResult(s) ==
    LET t == VecPop(s.indexes)
        s1 == [s EXCEPT !.indexes = t.v]
    IN  IF Len(t.out) = 0
        THEN [s |-> s, out |-> <<>>, panic |-> FALSE]
        ELSE IF t.out[1][1] = "Ok"
        THEN LET r == Pop(s.s_store)
                 bad == r.panic \/ Len(r.out) = 0
             IN  [s |-> [s1 EXCEPT !.s_store = r.s],
                  out |-> IF bad THEN <<>> ELSE <<(<<"Ok", r.out[1]>>)>>,
                  panic |-> bad]
        ELSE LET r == Pop(s.t_store)
                 bad == r.panic \/ Len(r.out) = 0
             IN  [s |-> [s1 EXCEPT !.t_store = r.s],
                  out |-> IF bad THEN <<>> ELSE <<(<<"Err", r.out[1]>>)>>,
                  panic |-> bad]

\* ColumnOption::pop popping the payload store whatever the tag
PopOptionAlways(s) ==
    LET t == VecPop(s.indexes)
        s1 == [s EXCEPT !.indexes = t.v]
    IN  IF Len(t.out) = 0
        THEN [s |-> s, out |-> <<>>, panic |-> FALSE]
        ELSE LET r == Pop(s.t_store)
                 bad == r.panic \/ Len(r.out) = 0
             IN  [s |-> [s1 EXCEPT !.t_store = r.s],
                  out |-> IF bad THEN <<>>
                          ELSE IF t.out[1] # <<>> THEN <<(<<r.out[1]>>)>> ELSE <<(<<>>)>>,
                  panic |-> bad]

PopOption(s) ==
    LET t == VecPop(s.indexes)
        s1 == [s EXCEPT !.indexes = t.v]
    IN  IF Len(t.out) = 0
        THEN [s |-> s, out |-> <<>>, panic |-> FALSE]
        ELSE IF t.out[1] # <<>>
        THEN LET r == Pop(s.t_store)
                 bad == r.panic \/ Len(r.out) = 0
             IN  [s |-> [s1 EXCEPT !.t_store = r.s],
                  out |-> IF bad THEN <<>> ELSE <<(<<r.out[1]>>)>>,
                  panic |-> bad]
        ELSE [s |-> s1, out |-> <<(<<>>)>>, panic |-> FALSE]

Pop(s) ==
    CASE s.k = "flat" -> PopFlat(s)
      [] s.k = "unit" -> PopUnit(s)
      [] s.k = "text" -> PopString(s)
      [] s.k = "list" -> PopVec(s)
      [] s.k = "tup2" -> PopTuple2(s)
      [] s.k = "tup3" -> PopTuple3(s)
      [] s.k = "opt"  -> PopOption(s)
      [] s.k = "res"  -> PopResult(s)

(***************************************************************************)
(* Columnar::clear.                                                        *)
(***************************************************************************)
RECURSIVE Clear(_)
Clear(s) ==
    CASE s.k = "flat" -> [s EXCEPT !.vec = VecClear(@)]
      [] s.k = "unit" -> [s EXCEPT !.n = 0]
      [] s.k = "text" -> [s EXCEPT !.bounds = VecClear(@), !.values = VecClear(@)]
      [] s.k = "list" -> [s EXCEPT !.bounds = VecClear(@), !.values = Clear(@)]
      [] s.k = "tup2" -> [s EXCEPT !.f0 = Clear(@), !.f1 = Clear(@)]
      [] s.k = "tup3" -> [s EXCEPT !.f0 = Clear(@), !.f1 = Clear(@), !.f2 = Clear(@)]
      [] s.k = "opt"  -> [s EXCEPT !.indexes = VecClear(@), !.t_store = Clear(@)]
      [] s.k = "res"  -> [s EXCEPT !.indexes = VecClear(@), !.s_store = Clear(@),
                                   !.t_store = Clear(@)]

(***************************************************************************)
(* Columnar::index.  The result is the view and whether the call panicked  *)
(* (an index out of a Vec's or a slice's range).  A view is: the element   *)
(* (flat), the unit value, the bytes (text), a ColumnVecRef (list), a      *)
(* tuple of views, <<>> or <<view>> (optional), <<"Ok"/"Err", view>>.      *)
(* A ColumnVecRef holds lower and upper and a reference to the nested      *)
(* store (slice), which ColumnVecRef::index reads.                         *)
(***************************************************************************)
RECURSIVE Index(_, _)

NoView == <<>>
VecInRange(v, i) == i >= 0 /\ i < VecLen(v)

IndexFlat(s, i) ==
    IF VecInRange(s.vec, i)
    THEN [panic |-> FALSE, view |-> s.vec.items[i + 1]]
    ELSE [panic |-> TRUE, view |-> NoView]

IndexString(s, i) ==
    IF VecInRange(s.bounds, i) /\ VecInRange(s.bounds, i + 1)
    THEN LET lower == s.bounds.items[i + 1]
             upper == s.bounds.items[i + 2]
         IN  IF lower <= upper /\ upper <= VecLen(s.values)
             THEN [panic |-> FALSE, view |-> SubSeq(s.values.items, lower + 1, upper)]
             ELSE [panic |-> TRUE, view |-> NoView]
    ELSE [panic |-> TRUE, view |-> NoView]

IndexVec(s, i) ==
    IF VecInRange(s.bounds, i) /\ VecInRange(s.bounds, i + 1)
    THEN LET lower == s.bounds.items[i + 1]
             upper == s.bounds.items[i + 2]
         IN  [panic |-> FALSE,
              view |-> [lower |-> lower, upper |-> upper,
                        slice |-> s.values]]
    ELSE [panic |-> TRUE, view |-> NoView]

IndexTuple2(s, i) ==
    LET r0 == Index(s.f0, i)
        r1 == Index(s.f1, i)
    IN  IF r0.panic \/ r1.panic
        THEN [panic |-> TRUE, view |-> NoView]
        ELSE [panic |-> FALSE, view |-> <<r0.view, r1.view>>]

IndexTuple3(s, i) ==
    LET r0 == Index(s.f0, i)
        r1 == Index(s.f1, i)
        r2 == Index(s.f2, i)
    IN  IF r0.panic \/ r1.panic \/ r2.panic
        THEN [panic |-> TRUE, view |-> NoView]
        ELSE [panic |-> FALSE, view |-> <<r0.view, r1.view, r2.view>>]

IndexResult(s, i) ==
    IF VecInRange(s.indexes, i)
    THEN LET t == s.indexes.items[i + 1]
             r == IF t[1] = "Ok" THEN Index(s.s_store, t[2]) ELSE Index(s.t_store, t[2])
         IN  IF r.panic
             THEN [panic |-> TRUE, view |-> NoView]
             ELSE [panic |-> FALSE, view |-> <<t[1], r.view>>]
    ELSE [panic |-> TRUE, view |-> NoView]

IndexOption(s, i) ==
    IF VecInRange(s.indexes, i)
    THEN LET t == s.indexes.items[i + 1]
         IN  IF t # <<>>
             THEN LET r == Index(s.t_store, t[1])
                  IN  IF r.panic
                      THEN [panic |-> TRUE, view |-> NoView]
                      ELSE [panic |-> FALSE, view |-> <<r.view>>]
             ELSE [panic |-> FALSE, view |-> <<>>]
    ELSE [panic |-> TRUE, view |-> NoView]

Index(s, i) ==
    CASE s.k = "flat" -> IndexFlat(s, i)
      [] s.k = "unit" -> [panic |-> FALSE, view |-> UnitVal]
      [] s.k = "text" -> IndexString(s, i)
      [] s.k = "list" -> IndexVec(s, i)
      [] s.k = "tup2" -> IndexTuple2(s, i)
      [] s.k = "tup3" -> IndexTuple3(s, i)
      [] s.k = "opt"  -> IndexOption(s, i)
      [] s.k = "res"  -> IndexResult(s, i)

\* Columnar::last: None when is_empty(), else Some(index(len() - 1))
Last(s) ==
    IF LenPanics(s)
    THEN [panic |-> TRUE, out |-> <<>>]
    ELSE IF IsEmpty(s)
    THEN [panic |-> FALSE, out |-> <<>>]
    ELSE LET r == Index(s, StoreLen(s) - 1)
         IN  [panic |-> r.panic, out |-> IF r.panic THEN <<>> ELSE <<r.view>>]

\* ColumnVecRef::len and ColumnVecRef::index
RefLen(ref) == WSub(ref.upper, ref.lower)
RefIndex(ref, j) ==
    LET n == RefLen(ref)
        at == WAdd(ref.lower, j)
    IN  IF n.panic \/ ~(j < n.val) \/ at.panic
        THEN [panic |-> TRUE, view |-> NoView]
        ELSE Index(ref.slice, at.val)

(***************************************************************************)
(* Columnar::heap_size: <<bytes used, bytes allocated>>.  The byte counts  *)
(* of the stores explored are far below the word size, so they are plain   *)
(* integers here.                                                          *)
(***************************************************************************)
RECURSIVE HeapSize(_)

\* std::mem::size_of::<usize>() and std::mem::size_of::<Result<usize, usize>>()
SizeOfUsize == 8
SizeOfResultTag == 16

PairSum(p, q) == <<p[1] + q[1], p[2] + q[2]>>

HeapSizeFlat(s) == <<s.vec.esz * VecLen(s.vec), s.vec.esz * s.vec.cap>>

HeapSizeString(s) ==
    LET bl == SizeOfUsize * VecLen(s.bounds)
        bc == SizeOfUsize * s.bounds.cap
        vl == VecLen(s.values)
        vc == s.values.cap
    IN  <<bl + vl, bc + vc>>

HeapSizeVec(s) ==
    LET inner == HeapSize(s.values)
    IN  <<SizeOfUsize * VecLen(s.bounds) + inner[1], SizeOfUsize * s.bounds.cap + inner[2]>>

HeapSizeTuple2(s) == PairSum(HeapSize(s.f0), HeapSize(s.f1))

HeapSizeTuple3(s) == PairSum(PairSum(HeapSize(s.f0), HeapSize(s.f1)), HeapSize(s.f2))

HeapSizeResult(s) ==
    LET li == SizeOfResultTag * VecLen(s.indexes)
        ci == SizeOfResultTag * s.indexes.cap
    IN  PairSum(PairSum(HeapSize(s.s_store), HeapSize(s.t_store)), <<li, ci>>)

\* heap_size of an option store that leaves its tag array out
HeapSizeOptionNoTags(s) == HeapSize(s.t_store)

HeapSizeOption(s) ==
    LET li == SizeOfResultTag * VecLen(s.indexes)
        ci == SizeOfResultTag * s.indexes.cap
    IN  PairSum(HeapSize(s.t_store), <<li, ci>>)

HeapSize(s) ==
    CASE s.k = "flat" -> HeapSizeFlat(s)
      [] s.k = "unit" -> <<0, 0>>
      [] s.k = "text" -> HeapSizeString(s)
      [] s.k = "list" -> HeapSizeVec(s)
      [] s.k = "tup2" -> HeapSizeTuple2(s)
      [] s.k = "tup3" -> HeapSizeTuple3(s)
      [] s.k = "opt"  -> HeapSizeOption(s)
      [] s.k = "res"  -> HeapSizeResult(s)

(***************************************************************************)
(* The state machine: one store of one shape, built for one profile, and   *)
(* a caller that copies, pushes, copies slices, pops and clears.  log is   *)
(* the Vec<T> the store stands in for: the values appended and not yet     *)
(* removed.  lastOp names the last operation and ret is what it returned   *)
(* when it was a pop.  hist names the kind of call sequence so far:        *)
(*   "fill"   only copy calls since the store was created,                 *)
(*   "drain"  only copy calls, then only pop calls,                        *)
(*   "mixed"  copy, push and pop calls in any order,                       *)
(*   "cfill"  a clear, then only copy calls,                               *)
(*   "cdrain" a clear, then only copy calls, then only pop calls,          *)
(*   "any"    anything else.                                               *)
(* A panic ends the run.                                                   *)
(***************************************************************************)
Shapes ==
    << Flat, Unit, Text, ListOf(Flat), Tup2(Flat, Unit), Tup3(Flat, Unit, OptOf(Unit)),
       OptOf(Flat), ResOf(Flat, Unit), Tup2(Text, Flat), OptOf(Text), ListOf(Unit),
       Tup2(ListOf(Unit), Flat) >>

Builds == {"debug", "release"}

HistAfterCopy(h) ==
    CASE h = "fill" -> "fill"
      [] h = "cfill" -> "cfill"
      [] h \in {"drain", "mixed"} -> "mixed"
      [] OTHER -> "any"
HistAfterPush(h) == IF h \in {"fill", "drain", "mixed"} THEN "mixed" ELSE "any"
HistAfterPop(h) ==
    CASE h \in {"fill", "drain"} -> "drain"
      [] h \in {"cfill", "cdrain"} -> "cdrain"
      [] h = "mixed" -> "mixed"
      [] OTHER -> "any"

Init ==
    /\ \E i \in 1..Len(Shapes) : shape = Shapes[i]
    /\ build \in Builds
    /\ store = DefaultStore(shape)
    /\ log = <<>>
    /\ lastOp = "new"
    /\ hist = "fill"
    /\ ret = <<>>
    /\ panicked = FALSE

\* an append of the items xs by the operation op; r is what the store's code did
Appended(op, xs, r) ==
    /\ store' = r.s
    /\ panicked' = r.panic
    /\ log' = log \o xs
    /\ lastOp' = op
    /\ hist' = CASE op = "copy" -> HistAfterCopy(hist)
                  [] op = "push" -> HistAfterPush(hist)
                  [] OTHER -> "any"
    /\ ret' = <<>>
    /\ UNCHANGED <<shape, build>>

CopyOp ==
    /\ ~panicked
    /\ Len(log) < MaxLen
    /\ \E x \in Values(shape) : Appended("copy", <<x>>, Copy(store, x))

\* the trait's default push: self.copy(&item)
PushOp ==
    /\ ~panicked
    /\ Len(log) < MaxLen
    /\ \E x \in Values(shape) : Appended("push", <<x>>, Copy(store, x))

CopySliceOp ==
    /\ ~panicked
    /\ \E xs \in SeqsUpTo(Values(shape), MaxSlice) :
          /\ Len(log) + Len(xs) <= MaxLen
          /\ Appended("copy_slice", xs, CopySlice(store, xs))

PopOp ==
    /\ ~panicked
    /\ LET r == Pop(store)
       IN  /\ store' = r.s
           /\ panicked' = r.panic
           /\ ret' = r.out
    /\ log' = IF log = <<>> THEN log ELSE SubSeq(log, 1, Len(log) - 1)
    /\ lastOp' = "pop"
    /\ hist' = HistAfterPop(hist)
    /\ UNCHANGED <<shape, build>>

ClearOp ==
    /\ ~panicked
    /\ store' = Clear(store)
    /\ log' = <<>>
    /\ lastOp' = "clear"
    /\ hist' = "cfill"
    /\ ret' = <<>>
    /\ UNCHANGED <<shape, build, panicked>>

Next == CopyOp \/ PushOp \/ CopySliceOp \/ PopOp \/ ClearOp

Spec == Init /\ [][Next]_vars

(***************************************************************************)
(* The unit store alone, with a caller whose slices of () are as long as   *)
(* a slice of a zero-sized type can be: up to usize::MAX elements.  The    *)
(* caller stops appending once log holds more than usize::MAX values or    *)
(* the counter has left the length of log.                                 *)
(***************************************************************************)
UnitSlice(n) == [i \in 1..n |-> UnitVal]

InitUnit ==
    /\ shape = Unit
    /\ build \in Builds
    /\ store = DefaultStore(Unit)
    /\ log = <<>>
    /\ lastOp = "new"
    /\ hist = "fill"
    /\ ret = <<>>
    /\ panicked = FALSE

UnitCopyOp ==
    /\ ~panicked
    /\ Len(log) <= UsizeMax /\ store.n = Len(log)
    /\ Appended("copy", <<UnitVal>>, Copy(store, UnitVal))

UnitCopySliceOp ==
    /\ ~panicked
    /\ store.n = Len(log)
    /\ \E n \in {0, 1, 2, UsizeMax - 1, UsizeMax} :
          /\ Len(log) + n <= UsizeMax + 1
          /\ Appended("copy_slice", UnitSlice(n), CopySlice(store, UnitSlice(n)))

NextUnit == UnitCopyOp \/ UnitCopySliceOp \/ PopOp \/ ClearOp

SpecUnit == InitUnit /\ [][NextUnit]_vars

(***************************************************************************)
(* What the claims speak of.                                               *)
(***************************************************************************)
\* what pop returns when the store stands in for the Vec<T> l
Expect(l) == IF l = <<>> THEN <<>> ELSE <<l[Len(l)]>>

\* len() returns n
LenIs(s, n) == ~LenPanics(s) /\ StoreLen(s) = n

\* the view denotes the value x of the shape sh
RECURSIVE Denotes(_, _, _)
Denotes(sh, view, x) ==
    CASE sh.k = "flat" -> view = x
      [] sh.k = "unit" -> view = UnitVal
      [] sh.k = "text" -> view = AsBytes(x)
      [] sh.k = "list" ->
            /\ view.upper - view.lower = Len(x)
            /\ \A j \in 1..Len(x) :
                  ~RefIndex(view, j - 1).panic /\ Denotes(sh.e, RefIndex(view, j - 1).view, x[j])
      [] sh.k = "tup2" -> Denotes(sh.a, view[1], x[1]) /\ Denotes(sh.b, view[2], x[2])
      [] sh.k = "tup3" -> /\ Denotes(sh.a, view[1], x[1])
                          /\ Denotes(sh.b, view[2], x[2])
                          /\ Denotes(sh.c, view[3], x[3])
      [] sh.k = "opt"  -> IF Len(x) = 0
                          THEN Len(view) = 0
                          ELSE Len(view) = 1 /\ Denotes(sh.e, view[1], x[1])
      [] sh.k = "res"  -> /\ view[1] = x[1]
                          /\ Denotes(IF x[1] = "Ok" THEN sh.a ELSE sh.b, view[2], x[2])

\* index(i) of the store s returns a view of the value x
IndexDenotes(s, i, x) == ~Index(s, i).panic /\ Denotes(shape, Index(s, i).view, x)

\* the text and list stores inside s, s included
RECURSIVE BoundedStores(_)
BoundedStores(s) ==
    CASE s.k = "text" -> {s}
      [] s.k = "list" -> {s} \cup BoundedStores(s.values)
      [] s.k = "tup2" -> BoundedStores(s.f0) \cup BoundedStores(s.f1)
      [] s.k = "tup3" -> BoundedStores(s.f0) \cup BoundedStores(s.f1) \cup BoundedStores(s.f2)
      [] s.k = "opt"  -> BoundedStores(s.t_store)
      [] s.k = "res"  -> BoundedStores(s.s_store) \cup BoundedStores(s.t_store)
      [] OTHER -> {}

BoundsOK(s) ==
    /\ VecLen(s.bounds) >= 1
    /\ LenIs(s, VecLen(s.bounds) - 1)
    /\ s.bounds.items[1] = 0
    /\ \A i \in 1..(VecLen(s.bounds) - 1) : s.bounds.items[i] <= s.bounds.items[i + 1]

\* the kinds of tag (SelectSeq keeps the tags of one kind, in order)
IsOk(t) == t[1] = "Ok"
IsErr(t) == t[1] = "Err"
IsSome(t) == Len(t) = 1

\* as many Ok tags as left entries, as many Err tags as right entries
TagCountsOK(s) ==
    /\ LenIs(s.s_store, Len(SelectSeq(s.indexes.items, IsOk)))
    /\ LenIs(s.t_store, Len(SelectSeq(s.indexes.items, IsErr)))

\* index(i) is a view of the i-th value of l for every i < len()
IndexCorrect(s, l) ==
    \A i \in 0..Len(l) :
        (~LenPanics(s) /\ i < StoreLen(s)) => (i < Len(l) /\ IndexDenotes(s, i, l[i + 1]))

\* what pop after pop returns until the store is empty, and whether a pop panicked
RECURSIVE PopAll(_)
PopAll(s) ==
    LET r == Pop(s)
    IN  IF r.panic THEN [outs |-> <<>>, panic |-> TRUE]
        ELSE IF Len(r.out) = 0 THEN [outs |-> <<>>, panic |-> FALSE]
        ELSE LET rest == PopAll(r.s)
             IN  [outs |-> <<r.out[1]>> \o rest.outs, panic |-> rest.panic]

\* the logical state of a store: its len(), its entries at the indexes up to n, its pops
Observe(s, n) ==
    [lenPanics |-> LenPanics(s),
     len |-> StoreLen(s),
     entries |-> [i \in 0..n |-> Index(s, i)],
     pops |-> PopAll(s)]

\* the entries a store holds, oldest first, as its pops return them
Contents(s) == Reverse(PopAll(s).outs)

\* The bytes of one array: element size x (length, capacity)
VecBytes(v) == <<v.esz * VecLen(v), v.esz * v.cap>>

\* heap_size of s and of every store nested in s is the sum of the nested
\* stores' heap_size and the bytes of the store's own arrays
RECURSIVE HeapAdditive(_)
HeapAdditive(s) ==
    CASE s.k = "flat" -> HeapSize(s) = VecBytes(s.vec)
      [] s.k = "unit" -> HeapSize(s) = <<0, 0>>
      [] s.k = "text" -> HeapSize(s) = PairSum(VecBytes(s.bounds), VecBytes(s.values))
      [] s.k = "list" -> /\ HeapSize(s) = PairSum(VecBytes(s.bounds), HeapSize(s.values))
                         /\ HeapAdditive(s.values)
      [] s.k = "tup2" -> /\ HeapSize(s) = PairSum(HeapSize(s.f0), HeapSize(s.f1))
                         /\ HeapAdditive(s.f0) /\ HeapAdditive(s.f1)
      [] s.k = "tup3" -> /\ HeapSize(s) = PairSum(HeapSize(s.f0),
                                                  PairSum(HeapSize(s.f1), HeapSize(s.f2)))
                         /\ HeapAdditive(s.f0) /\ HeapAdditive(s.f1) /\ HeapAdditive(s.f2)
      [] s.k = "opt"  -> /\ HeapSize(s) = PairSum(VecBytes(s.indexes), HeapSize(s.t_store))
                         /\ HeapAdditive(s.t_store)
      [] s.k = "res"  -> /\ HeapSize(s) = PairSum(VecBytes(s.indexes),
                                                  PairSum(HeapSize(s.s_store), HeapSize(s.t_store)))
                         /\ HeapAdditive(s.s_store) /\ HeapAdditive(s.t_store)

(***************************************************************************)
(* C1  Round-trip: in any reachable state and for any value x of the       *)
(* store's shape, copy(x) immediately followed by pop() returns Some(x)    *)
(* (for the union store the same variant and payload).                     *)
(***************************************************************************)
C1_RoundTrip ==
    [][(lastOp = "copy" /\ lastOp' = "pop")
         => (~panicked' /\ ret' = <<log[Len(log)]>>)]_vars

(***************************************************************************)
(* C2  Length additivity: a default-created store has len() = 0 and        *)
(* is_empty(), and after n copy calls and nothing else len() = n.          *)
(***************************************************************************)
C2_LengthAdditivity ==
    (hist = "fill" /\ ~panicked)
        => /\ LenIs(store, Len(log))
           /\ (IsEmpty(store) <=> Len(log) = 0)

(***************************************************************************)
(* C3  Bounds invariant: every text or list store always has len() + 1     *)
(* bounds (at least one), the first of them 0, and they never decrease.    *)
(***************************************************************************)
C3_BoundsInvariant ==
    ~panicked => \A s \in BoundedStores(store) : BoundsOK(s)

(***************************************************************************)
(* C4  Union tagging: copy of an Ok value appends to the left store and    *)
(* records Ok(offset), copy of an Err value appends to the right store and *)
(* records Err(offset), offset being that side's length before the copy;   *)
(* so there are as many Ok tags as left entries and as many Err tags as    *)
(* right entries.                                                          *)
(***************************************************************************)
C4_UnionTagging ==
    [][(shape.k = "res" /\ lastOp' = "copy" /\ ~panicked')
         => LET x == log'[Len(log')]
            IN  /\ IF x[1] = "Ok"
                   THEN /\ VecLast(store'.indexes) = TagOk(StoreLen(store.s_store))
                        /\ store'.s_store = Copy(store.s_store, x[2]).s
                        /\ store'.t_store = store.t_store
                   ELSE /\ VecLast(store'.indexes) = TagErr(StoreLen(store.t_store))
                        /\ store'.t_store = Copy(store.t_store, x[2]).s
                        /\ store'.s_store = store.s_store
                /\ TagCountsOK(store')]_vars

(***************************************************************************)
(* C5  LIFO: after copying x1..xn into a new store, n pops return xn..x1,  *)
(* each present, and the next pop returns None.                            *)
(***************************************************************************)
C5_Lifo ==
    [][(hist' = "drain" /\ lastOp' = "pop")
         => (~panicked' /\ ret' = Expect(log))]_vars

(***************************************************************************)
(* C6  Index: after copies and pops, index(i) for every i < len() is a     *)
(* view of the value appended at position i, and a later copy or pop of    *)
(* entries behind i leaves it so.                                          *)
(***************************************************************************)
C6_IndexStable ==
    [][(hist' \in {"fill", "drain", "mixed"} /\ ~panicked')
         => /\ IndexCorrect(store', log')
            /\ \A i \in 0..(Len(log) - 1) :
                  (i < Len(log') /\ i < StoreLen(store) /\ i < StoreLen(store'))
                      => Index(store', i) = Index(store, i)]_vars

(***************************************************************************)
(* C7  Clear: after clear() len() = 0 and is_empty(), and the store is as  *)
(* good as new: pop returns None, n copies give len() = n, and the pops    *)
(* after them return the copied values.                                    *)
(***************************************************************************)
C7_Clear ==
    [][/\ lastOp' = "clear" => (LenIs(store', 0) /\ IsEmpty(store'))
       /\ (hist' = "cfill" /\ ~panicked') => LenIs(store', Len(log'))
       /\ (hist' = "cdrain" /\ lastOp' = "pop")
             => (~panicked' /\ ret' = Expect(log))]_vars

(***************************************************************************)
(* C8  Tuple lockstep: after every operation the field stores of a tuple   *)
(* store report the same len().                                            *)
(***************************************************************************)
C8_TupleLockstep ==
    /\ (shape.k = "tup2" /\ ~panicked)
          => /\ ~LenPanics(store.f0) /\ ~LenPanics(store.f1)
             /\ StoreLen(store.f1) = StoreLen(store.f0)
    /\ (shape.k = "tup3" /\ ~panicked)
          => /\ ~LenPanics(store.f0) /\ ~LenPanics(store.f1) /\ ~LenPanics(store.f2)
             /\ StoreLen(store.f1) = StoreLen(store.f0)
             /\ StoreLen(store.f2) = StoreLen(store.f0)

(***************************************************************************)
(* C9  Optional store: the payload store's length is the number of Some    *)
(* tags, and the k-th Some tag (from 0) holds the offset k.                *)
(***************************************************************************)
C9_OptionTags ==
    (shape.k = "opt" /\ ~panicked)
        => LET some == SelectSeq(store.indexes.items, IsSome)
           IN  /\ LenIs(store.t_store, Len(some))
               /\ \A k \in 1..Len(some) : some[k] = <<k - 1>>

(***************************************************************************)
(* C10  Pop on empty: pop() on a store with len() = 0 returns None, does   *)
(* not fail and leaves the store as it was; popping a stored None from an  *)
(* optional store returns Some(None) instead.                              *)
(***************************************************************************)
C10_PopOnEmpty ==
    [][lastOp' = "pop"
         => /\ LenIs(store, 0) => (~panicked' /\ ret' = <<>> /\ store' = store)
            /\ (shape.k = "opt" /\ Expect(log) = <<(<<>>)>>)
                  => (~panicked' /\ ret' = <<(<<>>)>>)]_vars


(***************************************************************************)
(* C11  No abort: from a default-created store of any variant, whatever    *)
(* the sequence of copy, push, copy_slice, pop and clear with well-formed  *)
(* values, no pop() panics: not the tuple store's mixed branch, not an     *)
(* unwrap of a nested pop, not the text store's decoding.                  *)
(***************************************************************************)
C11_NoPopAbort ==
    [][lastOp' = "pop" => ~panicked']_vars

(***************************************************************************)
(* C12  Round-trip frame: in any reachable state and for any value x,      *)
(* after copy(x) followed by pop() the store's len() and both components   *)
(* of heap_size() (bytes used, bytes allocated) are what they were before  *)
(* the copy.                                                               *)
(***************************************************************************)
C12_RoundTripFrame ==
    (~panicked /\ Len(log) < MaxLen)
        => \A x \in Values(shape) :
              LET c == Copy(store, x)
                  p == Pop(c.s)
              IN  /\ ~c.panic /\ ~p.panic
                  /\ ~LenPanics(store) /\ LenIs(p.s, StoreLen(store))
                  /\ HeapSize(p.s) = HeapSize(store)

(***************************************************************************)
(* C13  Optional absence: in any reachable state of an optional store,     *)
(* copy(None) appends a None tag and leaves the payload store as it was,   *)
(* and the pop() that follows returns Some(None) and leaves the payload    *)
(* store as it was.                                                        *)
(***************************************************************************)
C13_OptionAbsence ==
    [][shape.k = "opt"
         => /\ (lastOp' = "copy" /\ Len(log'[Len(log')]) = 0)
                  => /\ ~panicked'
                     /\ store'.t_store = store.t_store
                     /\ store'.indexes.items = Append(store.indexes.items, <<>>)
            /\ (lastOp = "copy" /\ Len(log[Len(log)]) = 0 /\ lastOp' = "pop")
                  => /\ ~panicked'
                     /\ ret' = <<(<<>>)>>
                     /\ store'.t_store = store.t_store]_vars

\* a None was copied behind a payload entry and popped again
C13_Witness ==
    /\ shape.k = "opt" /\ lastOp = "pop" /\ ~panicked
    /\ ret = <<(<<>>)>>
    /\ Len(log) = 1 /\ Len(log[1]) = 1

(***************************************************************************)
(* C14  copy_slice equivalence: in any reachable state and for any slice,  *)
(* copy_slice(items) leaves the store in the same logical state (len(),    *)
(* entries at every index, results of the pops that follow) as one copy    *)
(* per element in order, for the flat and the unit stores' own copy_slice  *)
(* as for the default one.                                                 *)
(***************************************************************************)
C14_CopySliceEquiv ==
    [][lastOp' = "copy_slice"
         => LET items == SubSeq(log', Len(log) + 1, Len(log'))
                each == CopyEach(store, items)
            IN  /\ panicked' = each.panic
                /\ ~panicked' => \/ store' = each.s
                                  \/ Observe(store', Len(log')) = Observe(each.s, Len(log'))]_vars

\* a flat store took a slice of two different items
C14_Witness ==
    /\ shape.k = "flat" /\ lastOp = "copy_slice" /\ ~panicked
    /\ Len(log) = 2 /\ log[1] # log[2]
    /\ store.vec.items = log

(***************************************************************************)
(* C15  last(): in any reachable state, a new and a cleared store          *)
(* included, last() returns None when the store holds no entries and       *)
(* otherwise Some(index(len() - 1)), a view of the entry appended last and *)
(* not popped.                                                             *)
(***************************************************************************)
C15_Last ==
    ~panicked
        => LET l == Last(store)
           IN  /\ ~l.panic
               /\ IF log = <<>>
                  THEN Len(l.out) = 0
                  ELSE /\ Len(l.out) = 1
                       /\ l.out[1] = Index(store, StoreLen(store) - 1).view
                       /\ Denotes(shape, l.out[1], log[Len(log)])

(***************************************************************************)
(* C16  Heap-size additivity: in every reachable state both components of  *)
(* heap_size() of a text, list, tuple, option or union store are the sum   *)
(* of the nested stores' heap_size() and element size x (length, capacity) *)
(* of the store's own bounds or tag array; the unit store reports (0, 0)   *)
(* and the flat store element size x (length, capacity).  The same holds   *)
(* of every store nested in it.                                            *)
(***************************************************************************)
C16_HeapAdditivity == HeapAdditive(store)

\* an option store over a text store, holding two entries of which one is
\* Some: three arrays contribute, each with spare capacity
C16_Witness ==
    /\ shape = OptOf(Text) /\ ~panicked /\ Len(log) = 2
    /\ VecLen(store.indexes) = 2 /\ VecLen(store.t_store.values) > 0
    /\ VecLen(store.t_store.bounds) = 1
    /\ HeapSize(store)[1] = 2 * 16 + 8 + VecLen(store.t_store.values)
    /\ HeapSize(store)[2] > HeapSize(store)[1]

(***************************************************************************)
(* C17  List store copy and pop: copy(seq) appends the elements of seq to  *)
(* the nested store in order and records the nested store's new length as  *)
(* the next bound, so that in every reachable state the last bound is the  *)
(* nested store's length; pop() of a store holding a list removes the last *)
(* bound, pops (removed bound - new last bound) entries off the nested     *)
(* store, returns them in their original order and leaves the nested       *)
(* store's length equal to the new last bound.                             *)
(***************************************************************************)
C17_ListCopyPop ==
    [][shape.k = "list"
         => /\ ~panicked'
                 => /\ VecLen(store'.bounds) >= 1
                    /\ VecLast(store'.bounds) = StoreLen(store'.values)
            /\ lastOp' = "copy"
                 => /\ ~panicked'
                    /\ Contents(store'.values) = Contents(store.values) \o log'[Len(log')]
                    /\ store'.bounds.items
                          = Append(store.bounds.items, StoreLen(store'.values))
            /\ (lastOp' = "pop" /\ log # <<>>)
                 => /\ ~panicked'
                    /\ VecLen(store.bounds) > 1
                    /\ store'.bounds.items
                          = SubSeq(store.bounds.items, 1, VecLen(store.bounds) - 1)
                    /\ LET n == VecLast(store.bounds) - VecLast(store'.bounds)
                           c == Contents(store.values)
                       IN  /\ n >= 0 /\ n <= Len(c)
                           /\ ret' = << SubSeq(c, Len(c) - n + 1, Len(c)) >>
                           /\ Contents(store'.values) = SubSeq(c, 1, Len(c) - n)
                           /\ StoreLen(store'.values) = VecLast(store'.bounds)]_vars

(***************************************************************************)
(* C18  List view sub-indexing: for the view that the list store's         *)
(* index(i) returns, i < len(): the view's len() is upper - lower and is   *)
(* the length of the i-th stored list; index(j) of the view, for           *)
(* 0 <= j < upper - lower, returns the nested store's index(lower + j),    *)
(* the j-th element of the i-th list; index(j) with j >= upper - lower     *)
(* fails its assertion.                                                    *)
(***************************************************************************)
C18_ListView ==
    (shape.k = "list" /\ ~panicked)
        => \A i \in 0..(Len(log) - 1) :
              (~LenPanics(store) /\ i < StoreLen(store))
                  => LET r == Index(store, i)
                         v == r.view
                         l == log[i + 1]
                     IN  /\ ~r.panic
                         /\ ~RefLen(v).panic
                         /\ RefLen(v).val = v.upper - v.lower
                         /\ RefLen(v).val = Len(l)
                         /\ \A j \in 0..(Len(l) - 1) :
                               /\ ~RefIndex(v, j).panic
                               /\ RefIndex(v, j) = Index(store.values, v.lower + j)
                               /\ Denotes(shape.e, RefIndex(v, j).view, l[j + 1])
                         /\ \A j \in {Len(l), Len(l) + 1, MaxListLen * MaxLen, UsizeMax} :
                               RefIndex(v, j).panic

(***************************************************************************)
(* C19  Unit store counter arithmetic: the counter never wraps.  pop() at  *)
(* counter 0 returns None and leaves the counter at 0; copy leaves len()   *)
(* equal to the previous len() plus 1 and copy_slice(s) to the previous    *)
(* len() plus s.len(), as mathematical integers, without a panic, for      *)
(* every reachable counter value and slice length.                         *)
(***************************************************************************)
C19_UnitCounter ==
    [][shape.k = "unit"
         => /\ (lastOp' = "pop" /\ store.n = 0)
                 => ~panicked' /\ ret' = <<>> /\ store'.n = 0
            /\ lastOp' = "copy"
                 => ~panicked' /\ StoreLen(store') = StoreLen(store) + 1
            /\ lastOp' = "copy_slice"
                 => /\ ~panicked'
                    /\ StoreLen(store') = StoreLen(store) + (Len(log') - Len(log))]_vars

====
